---- MODULE Spec2Model ----
(***************************************************************************)
(* Model of tgo: the aggregation and reporting engine that consumes the    *)
(* `go test -json` event stream (events, storage, status flags and the     *)
(* run loop), and of the earlier controller kept in tgoo.go.               *)
(*                                                                         *)
(* Text is modelled as a sequence of tokens.  A token is either one        *)
(* whitespace character (" ", "\t", "\n"), one character of a package or   *)
(* test name, or a run of characters that starts and ends with a           *)
(* non-whitespace character and is never split by the code's string tests. *)
(* Elapsed seconds are kept in milliseconds, timestamps as integers.       *)
(***************************************************************************)
EXTENDS Integers, Sequences, FiniteSets

\* ------------------------------------------------------------------ bounds
MaxEvents == 3
MaxPipe == 1
MaxHist == 3
MaxKeys == 3

\* ------------------------------------------------------------- text helpers
RECURSIVE TrimLeftChars(_, _)
TrimLeftChars(s, cut) ==
  IF s # <<>> /\ s[1] \in cut THEN TrimLeftChars(Tail(s), cut) ELSE s

RECURSIVE TrimRightChars(_, _)
TrimRightChars(s, cut) ==
  IF s # <<>> /\ s[Len(s)] \in cut
  THEN TrimRightChars(SubSeq(s, 1, Len(s) - 1), cut)
  ELSE s

TrimLeft(s) == TrimLeftChars(s, {" "})

TrimSpace(s) == TrimRightChars(TrimLeftChars(s, {" ", "\t", "\n"}), {" ", "\t", "\n"})

HasPrefix(s, p) == Len(s) >= Len(p) /\ SubSeq(s, 1, Len(p)) = p

HasSuffix(s, p) == Len(s) >= Len(p) /\ SubSeq(s, Len(s) - Len(p) + 1, Len(s)) = p

TrimPrefix(s, p) == IF HasPrefix(s, p) THEN SubSeq(s, Len(p) + 1, Len(s)) ELSE s

TrimSuffix(s, p) == IF HasSuffix(s, p) THEN SubSeq(s, 1, Len(s) - Len(p)) ELSE s

\* fmt.Sprintf("%.2f", seconds) for an elapsed value held in milliseconds
Fmt2(ms) ==
  LET c == (ms + 5) \div 10
  IN  CASE c = 0 -> "0.00"
        [] c = 1 -> "0.01"
        [] c = 2 -> "0.02"
        [] OTHER -> "0.03"

\* ------------------------------------------------------- actions, statuses
ActionRun == "run"
ActionPause == "pause"
ActionCont == "cont"
ActionPass == "pass"
ActionBench == "bench"
ActionFail == "fail"
ActionOutput == "output"
ActionSkip == "skip"

EndingActions == <<ActionFail, ActionSkip, ActionPass, ActionBench>>

StatusPass == "pass"
StatusFail == "fail"
StatusSkip == "skip"
StatusBench == "bench"
StatusNone == "none"

AllStatuses == <<StatusBench, StatusPass, StatusSkip, StatusNone, StatusFail>>

Range(s) == {s[i] : i \in 1..Len(s)}

IsActionOrNone(s, a) ==
  CASE a = ActionBench -> s = StatusBench
    [] a = ActionPass -> s = StatusPass
    [] a = ActionFail -> s = StatusFail
    [] a = ActionSkip -> s = StatusSkip
    [] OTHER -> s = StatusNone

IsAction(s, a) ==
  CASE a = ActionBench -> s = StatusBench
    [] a = ActionPass -> s = StatusPass
    [] a = ActionFail -> s = StatusFail
    [] a = ActionSkip -> s = StatusSkip
    [] OTHER -> FALSE

Any(ss, status) == \E i \in 1..Len(ss) : ss[i] = status

HasActionAlways(ss, action) == TRUE

HasAction(ss, action) == \E i \in 1..Len(ss) : IsAction(ss[i], action)

\* ------------------------------------------------------------ Event and Key
EventKey(e) == [Package |-> e.Package, Test |-> e.Test]

KeyString(k) == IF k.Test = <<>> THEN k.Package ELSE k.Package \o <<".">> \o k.Test

\* ---------------------------------------------------------- Events methods
StatusByPriority(es) ==
  IF \E i \in 1..Len(es) : es[i].Action = ActionFail THEN StatusFail
  ELSE IF \E i \in 1..Len(es) : es[i].Action = ActionPass THEN StatusPass
  ELSE IF \E i \in 1..Len(es) : es[i].Action = ActionSkip THEN StatusSkip
  ELSE IF \E i \in 1..Len(es) : es[i].Action = ActionBench THEN StatusBench
  ELSE StatusNone

RECURSIVE Status(_)
Status(es) ==
  IF es = <<>> THEN StatusNone
  ELSE CASE Head(es).Action = ActionFail -> StatusFail
         [] Head(es).Action = ActionPass -> StatusPass
         [] Head(es).Action = ActionSkip -> StatusSkip
         [] Head(es).Action = ActionBench -> StatusBench
         [] OTHER -> Status(Tail(es))

\* index of the first event whose action is in the given set, 0 for nil
RECURSIVE FindFirstFrom(_, _, _)
FindFirstFrom(es, actions, i) ==
  IF i > Len(es) THEN 0
  ELSE IF es[i].Action \in actions THEN i
  ELSE FindFirstFrom(es, actions, i + 1)

FindFirstByAction(es, actions) == FindFirstFrom(es, actions, 1)

\* sort.SliceStable on at most 20 elements is a plain insertion sort; the less
\* callback is passed as the set of pairs <<x, y>> for which it returns true
RECURSIVE SinkDown(_, _, _)
SinkDown(s, j, less) ==
  IF j > 1 /\ <<s[j], s[j - 1]>> \in less
  THEN SinkDown([s EXCEPT ![j] = s[j - 1], ![j - 1] = s[j]], j - 1, less)
  ELSE s

RECURSIVE InsertionSortFrom(_, _, _)
InsertionSortFrom(s, i, less) ==
  IF i > Len(s) THEN s
  ELSE InsertionSortFrom(SinkDown(s, i, less), i + 1, less)

SliceStable(s, less) == InsertionSortFrom(s, 2, less)

TimeNotAfter(x, y) == x.Time <= y.Time

TimeBefore(x, y) == x.Time < y.Time

SortByTime(es) ==
  SliceStable(es, {p \in Range(es) \X Range(es) : TimeBefore(p[1], p[2])})

ElapsedOfFirst(es, action) ==
  LET i == FindFirstByAction(es, {action})
  IN  IF i = 0 THEN 0 ELSE es[i].Elapsed

Line(mark, test, at) ==
  <<mark, " ">> \o test \o <<" ", "(", Fmt2(at), "s)", "\n">>

BoringActionVerdict(e) == e.Action \in {"run", "cont", "pause", "pass", "fail", "skip"}

BoringAction(e) ==
  \/ e.Action = "run"
  \/ e.Action = "cont"
  \/ e.Action = "pause"

\* the runner's own lines about a test
BoringTestOutput(e, failedAt, passedAt, skippedAt) ==
  LET output == TrimLeft(e.Output)
  IN  /\ e.Action = "output"
      /\ e.Test # <<>>
      /\ \/ output = <<"=== RUN", " ", " ", " ">> \o e.Test \o <<"\n">>
         \/ output = <<"=== CONT", " ", " ">> \o e.Test \o <<"\n">>
         \/ output = <<"=== PAUSE", " ">> \o e.Test \o <<"\n">>
         \/ output = Line("--- FAIL:", e.Test, failedAt)
         \/ output = Line("--- SKIP:", e.Test, skippedAt)
         \/ output = Line("--- PASS:", e.Test, passedAt)

\* the runner's own lines about a package
BoringPackageOutput(e) ==
  LET output == TrimLeft(e.Output)
      outputWS == TrimSpace(e.Output)
  IN  /\ e.Action = "output"
      /\ e.Package # <<>>
      /\ e.Test = <<>>
      /\ \/ HasPrefix(output, <<"ok", " ", " ", "\t">> \o e.Package)
         \/ HasSuffix(output, <<"[no test files]", "\n">>)
         \/ output = <<"ok", " ", " ", " ">> \o e.Package \o <<"\n">>
         \/ output = <<"PASS", "\n">>
         \/ output = <<"FAIL", "\n">>
         \/ HasPrefix(outputWS, <<"FAIL", "\t">> \o e.Package \o <<"\t">>)
         \/ HasPrefix(outputWS, <<"coverage:">>) /\ HasSuffix(outputWS, <<"of statements">>)

Boring(e, failedAt, passedAt, skippedAt) ==
  \/ BoringAction(e)
  \/ BoringTestOutput(e, failedAt, passedAt, skippedAt)
  \/ BoringPackageOutput(e)

KeepInterestingAll(es, failedAt, passedAt, skippedAt) == es

RECURSIVE KeepInteresting(_, _, _, _)
KeepInteresting(es, failedAt, passedAt, skippedAt) ==
  IF es = <<>> THEN <<>>
  ELSE IF Boring(Head(es), failedAt, passedAt, skippedAt)
       THEN KeepInteresting(Tail(es), failedAt, passedAt, skippedAt)
       ELSE <<Head(es)>> \o KeepInteresting(Tail(es), failedAt, passedAt, skippedAt)

Compact(es) ==
  KeepInteresting(es, ElapsedOfFirst(es, ActionFail),
                      ElapsedOfFirst(es, ActionPass),
                      ElapsedOfFirst(es, ActionSkip))

IsPackageWithoutTest(es) ==
  \E i \in 1..Len(es) :
     /\ es[i].Action = "output"
     /\ es[i].Package # <<>>
     /\ es[i].Test = <<>>
     /\ HasSuffix(TrimLeft(es[i].Output), <<"[no test files]", "\n">>)

RECURSIVE FindCoverageFrom(_, _)
FindCoverageFrom(es, i) ==
  IF i > Len(es) THEN <<>>
  ELSE LET output == TrimSpace(es[i].Output)
       IN  IF /\ es[i].Action = ActionOutput
              /\ HasPrefix(output, <<"coverage:", " ">>)
              /\ HasSuffix(output, <<" ", "of statements">>)
           THEN TrimSpace(TrimSuffix(TrimPrefix(output, <<"coverage:">>), <<"of statements">>))
           ELSE FindCoverageFrom(es, i + 1)

FindCoverageAnyKey(es) ==
  IF Len(es) = 0 THEN <<>> ELSE FindCoverageFrom(es, 1)

FindCoverage(es) ==
  IF Len(es) = 0 THEN <<>>
  ELSE IF es[1].Package = <<>> \/ es[1].Test # <<>> THEN <<>>
  ELSE FindCoverageFrom(es, 1)

PrintDetailCompacted(es, V) ==
  IF Len(Compact(es)) = 0 THEN <<>>
  ELSE LET events == SortByTime(Compact(es))
           status == Status(events)
           i == IF status = StatusNone THEN 0 ELSE FindFirstByAction(events, {status})
           event == IF i = 0 THEN events[1] ELSE events[i]
       IN  << [kind |-> "detail",
               status |-> status,
               Package |-> event.Package,
               Test |-> event.Test,
               elapsed |-> IF event.Elapsed >= 10 THEN Fmt2(event.Elapsed) ELSE "",
               coverage |-> FindCoverage(es),
               notests |-> IsPackageWithoutTest(es),
               events |-> SelectSeq(events, LAMBDA e : TrimSpace(e.Output) # <<>>)] >>

\* the lines PrintDetail writes: nothing, or one header with its event lines
PrintDetail(es, V) ==
  IF Len(es) = 0 THEN <<>>
  ELSE LET compacted == IF V <= 3 THEN Compact(es) ELSE es
       IN  IF Len(compacted) = 0 THEN <<>>
           ELSE LET events == SortByTime(compacted)
                    status == Status(events)
                    i == IF status = StatusNone THEN 0
                         ELSE FindFirstByAction(events, {status})
                    event == IF i = 0 THEN events[1] ELSE events[i]
                    filteredEvents ==
                      SelectSeq(events, LAMBDA e : ~(V <= 3 /\ TrimSpace(e.Output) = <<>>))
                IN  << [kind |-> "detail",
                        status |-> status,
                        Package |-> event.Package,
                        Test |-> event.Test,
                        elapsed |-> IF event.Elapsed >= 10 THEN Fmt2(event.Elapsed) ELSE "",
                        coverage |-> FindCoverage(es),
                        notests |-> IsPackageWithoutTest(es),
                        events |-> filteredEvents] >>

\* ------------------------------------------------------------- TestStorage
Restrict(ts, keys) == [k \in keys |-> ts[k]]

HasAnyAction(es, actions) == \E i \in 1..Len(es) : es[i].Action \in actions

Code(c) ==
  CASE c = "-" -> 45
    [] c = "." -> 46
    [] c = "/" -> 47
    [] c = "0" -> 48
    [] c = "1" -> 49
    [] c = "2" -> 50
    [] c = "T" -> 84
    [] c = "a" -> 97
    [] c = "b" -> 98

IsDigit(c) == c \in {"0", "1", "2"}

RECURSIVE Digits(_)
Digits(s) == IF s # <<>> /\ IsDigit(s[1]) THEN 1 + Digits(Tail(s)) ELSE 0

RECURSIVE ParseUint(_, _)
ParseUint(s, acc) ==
  IF s = <<>> THEN acc ELSE ParseUint(Tail(s), acc * 10 + (Code(s[1]) - 48))

RECURSIVE LexLess(_, _)
LexLess(a, b) ==
  IF a = <<>> THEN b # <<>>
  ELSE IF b = <<>> THEN FALSE
  ELSE IF a[1] = b[1] THEN LexLess(Tail(a), Tail(b))
  ELSE Code(a[1]) < Code(b[1])

\* natural.Less: byte order, but runs of digits compare as numbers
RECURSIVE NaturalLess(_, _)
NaturalLess(a, b) ==
  IF a = <<>> THEN b # <<>>
  ELSE IF b = <<>> THEN FALSE
  ELSE IF IsDigit(a[1]) /\ IsDigit(b[1])
       THEN LET ia == Digits(a)
                ib == Digits(b)
                an == ParseUint(SubSeq(a, 1, ia), 0)
                bn == ParseUint(SubSeq(b, 1, ib), 0)
            IN  IF an # bn THEN an < bn
                ELSE IF ia # Len(a) /\ ib # Len(b)
                     THEN NaturalLess(SubSeq(a, ia + 1, Len(a)), SubSeq(b, ib + 1, Len(b)))
                     ELSE LexLess(a, b)
  ELSE IF a[1] = b[1] THEN NaturalLess(Tail(a), Tail(b))
  ELSE Code(a[1]) < Code(b[1])

\* the less callback of OrderedKeys
KeyLess(x, y) ==
  IF x.Package = y.Package /\ (x.Test = <<>> \/ y.Test = <<>>)
  THEN Len(x.Test) > Len(y.Test)
  ELSE NaturalLess(KeyString(x), KeyString(y))

\* tks is the slice collected by ranging over the map, in iteration order
OrderedKeys(tks) ==
  SliceStable(tks, {p \in Range(tks) \X Range(tks) : KeyLess(p[1], p[2])})

\* the orders in which a range over a map with these keys can visit them
IterationOrders(keys) ==
  {f \in [1..Cardinality(keys) -> keys] : \A i, j \in 1..Cardinality(keys) : i # j => f[i] # f[j]}

TestStorageAppendReplace(ts, e) ==
  LET key == EventKey(e)
  IN  [k \in DOMAIN ts \cup {key} |-> IF k = key THEN <<e>> ELSE ts[k]]

TestStorageAppend(ts, e) ==
  LET key == EventKey(e)
  IN  IF key \in DOMAIN ts
      THEN [ts EXCEPT ![key] = Append(@, e)]
      ELSE [k \in DOMAIN ts \cup {key} |-> IF k = key THEN <<e>> ELSE ts[k]]

FilterPackageResultsKeepAll(ts) == ts

FilterPackageResults(ts) == Restrict(ts, {k \in DOMAIN ts : k.Test # <<>>})

FilterKeys(ts, exclude) == Restrict(ts, {k \in DOMAIN ts : k \notin exclude})

FindByAction(ts, action) == Restrict(ts, {k \in DOMAIN ts : HasAnyAction(ts[k], {action})})

FilterActionKeepAll(ts, actions) == ts

FilterAction(ts, actions) ==
  Restrict(ts, {k \in DOMAIN ts : ~HasAnyAction(ts[k], Range(actions))})

WithCoverage(ts) ==
  Restrict(ts, {k \in DOMAIN ts :
                  ~(k.Test # <<>> \/ k.Package = <<>>) /\ FindCoverage(ts[k]) # <<>>})

FilterNotests(ts) == Restrict(ts, {k \in DOMAIN ts : ~IsPackageWithoutTest(ts[k])})

CountTests(ts) == Cardinality(DOMAIN FilterPackageResults(ts))

SummaryRow(ts, key) ==
  LET events == ts[key]
      fe == FindFirstByAction(events, Range(EndingActions))
  IN  [Package |-> key.Package,
       Test |-> key.Test,
       elapsed |-> IF fe # 0 /\ events[fe].Elapsed >= 10 THEN Fmt2(events[fe].Elapsed) ELSE "",
       notests |-> key.Test = <<>> /\ IsPackageWithoutTest(events),
       coverage |-> IF key.Test = <<>> THEN FindCoverage(events) ELSE <<>>]

\* tks: the iteration order OrderedKeys meets when it ranges over ts
PrintSummary(ts, status, tks) ==
  LET keys == OrderedKeys(tks)
  IN  << [kind |-> "summary", status |-> status,
          rows |-> [i \in 1..Len(keys) |-> SummaryRow(ts, keys[i])]] >>

PrintCoverage(ts, tks) ==
  LET keys == SelectSeq(OrderedKeys(tks), LAMBDA k : k.Test = <<>>)
  IN  << [kind |-> "coverage",
          rows |-> [i \in 1..Len(keys) |->
                      [Package |-> keys[i].Package, coverage |-> FindCoverage(ts[keys[i]])]]] >>

\* ----------------------------------------------------------------- inputs
Ev(time, action, pkg, test, elapsed, output) ==
  [Time |-> time, Action |-> action, Package |-> pkg, Test |-> test,
   Elapsed |-> elapsed, Output |-> output]

ZeroEvent == Ev(0, "", <<>>, <<>>, 0, <<>>)

PkgA == <<"a">>
PkgAB == <<"a", "-", "b">>
TestT == <<"T">>

StreamEvents ==
  { Ev(1, ActionRun, PkgA, TestT, 0, <<>>),
    Ev(1, ActionOutput, PkgA, TestT, 0, <<"=== RUN", " ", " ", " ">> \o TestT \o <<"\n">>),
    Ev(2, ActionOutput, PkgA, TestT, 0, <<"boom", "\n">>),
    Ev(3, ActionPass, PkgA, TestT, 10, <<>>),
    Ev(2, ActionFail, PkgA, TestT, 0, <<>>),
    Ev(3, ActionOutput, PkgA, <<>>, 0,
       <<"coverage:", " ", "87.5%", " ", "of statements", "\n">>),
    Ev(4, ActionFail, PkgA, <<>>, 20, <<>>),
    Ev(1, ActionSkip, PkgAB, <<>>, 0, <<>>),
    Ev(1, ActionOutput, PkgAB, <<>>, 0,
       <<"?", " ", " ", " ", "\t">> \o PkgAB \o <<"\t", "[no test files]", "\n">>) }

\* one line of the producer's standard output: a JSON event, or text that
\* json.Unmarshal rejects
StreamLines ==
  {[json |-> "ok", e |-> ev] : ev \in StreamEvents} \cup {[json |-> "bad", e |-> ZeroEvent]}

FlagSets ==
  { [Results |-> <<StatusFail, StatusNone>>, Summary |-> <<StatusFail, StatusNone>>,
     V |-> 0, cover |-> FALSE],
    [Results |-> <<StatusBench, StatusPass, StatusNone, StatusFail>>,
     Summary |-> <<StatusNone, StatusFail>>, V |-> 2, cover |-> TRUE],
    [Results |-> AllStatuses, Summary |-> AllStatuses, V |-> 5, cover |-> FALSE],
    [Results |-> <<StatusPass>>, Summary |-> <<StatusSkip, StatusPass>>,
     V |-> 4, cover |-> TRUE],
    [Results |-> <<>>, Summary |-> <<>>, V |-> 0, cover |-> FALSE] }

\* ------------------------------------------------------------------ state
VARIABLES
  flags,      \* Flags: Results, Summary, V, and whether -cover was passed
  proc,       \* the wrapped go test process: "running", "exited", "killed"
  code,       \* its exit code once it has exited
  pipe,       \* lines written to its standard output and not yet scanned
  tests,      \* TestStorage: Key -> Events
  printed,    \* keys whose detail has been printed
  sink,       \* what has been written to standard output, in order
  pc,         \* where run is
  si,         \* index into flags.Summary
  exit,       \* what run returned
  lines,      \* every line the scanner has returned, in order
  mpc,        \* tgoo.go only: where run is while its goroutine reads and reports
  ctxDone,    \* tgoo.go only: the context of run has been cancelled
  arg,        \* function checks: the input drawn for the function
  op,         \* function checks: the function applied last
  res         \* function checks: what it returned

vars == <<flags, proc, code, pipe, tests, printed, sink, pc, si, exit, lines,
          mpc, ctxDone, arg, op, res>>

\* what the run loop of main.go never touches
aux == <<mpc, ctxDone, arg, op, res>>

EmptyStorage == [k \in {} |-> <<>>]

Emit(phase, key, outs) ==
  [i \in 1..Len(outs) |-> [phase |-> phase, key |-> key, out |-> outs[i]]]

SkippedNever(l) == FALSE

\* json.Unmarshal returned an error and the loop continues with the next line
Skipped(l) == l.json = "bad"

LiveStepAgain(st, f, e) ==
  LET ts == TestStorageAppend(st.tests, e)
      key == EventKey(e)
  IN  IF HasAction(f.Results, e.Action)
      THEN [tests |-> ts,
            printed |-> st.printed \cup {key},
            sink |-> st.sink \o Emit("live", key, PrintDetail(ts[key], f.V))]
      ELSE [tests |-> ts, printed |-> st.printed, sink |-> st.sink]

LiveStepUnmarked(st, f, e) ==
  LET ts == TestStorageAppend(st.tests, e)
      key == EventKey(e)
  IN  IF key \notin st.printed /\ HasAction(f.Results, e.Action)
      THEN [tests |-> ts,
            printed |-> st.printed,
            sink |-> st.sink \o Emit("live", key, PrintDetail(ts[key], f.V))]
      ELSE [tests |-> ts, printed |-> st.printed, sink |-> st.sink]

\* one pass through the body of the scan loop for a decoded event
LiveStep(st, f, e) ==
  LET ts == TestStorageAppend(st.tests, e)
      key == EventKey(e)
  IN  IF key \notin st.printed /\ HasAction(f.Results, e.Action)
      THEN [tests |-> ts,
            printed |-> st.printed \cup {key},
            sink |-> st.sink \o Emit("live", key, PrintDetail(ts[key], f.V))]
      ELSE [tests |-> ts, printed |-> st.printed, sink |-> st.sink]

RECURSIVE DetailsOf(_, _, _)
DetailsOf(ts, keys, V) ==
  IF keys = <<>> THEN <<>>
  ELSE Emit("drain", Head(keys), PrintDetail(ts[Head(keys)], V)) \o DetailsOf(ts, Tail(keys), V)

Init ==
  /\ flags \in FlagSets
  /\ proc = "running"
  /\ code = 0
  /\ pipe = <<>>
  /\ tests = EmptyStorage
  /\ printed = {}
  /\ sink = <<>>
  /\ pc = "scan"
  /\ si = 1
  /\ exit = 0
  /\ lines = <<>>
  /\ mpc = "run"
  /\ ctxDone = FALSE
  /\ arg = <<>>
  /\ op = "none"
  /\ res = <<>>

\* the go test process writes one more line
Produce(l) ==
  /\ proc = "running"
  /\ Len(lines) + Len(pipe) < MaxEvents
  /\ Len(pipe) < MaxPipe
  /\ pipe' = Append(pipe, l)
  /\ UNCHANGED <<flags, proc, code, tests, printed, sink, pc, si, exit, lines>>
  /\ UNCHANGED aux

ProcExit(c) ==
  /\ proc = "running"
  /\ proc' = "exited"
  /\ code' = c
  /\ UNCHANGED <<flags, pipe, tests, printed, sink, pc, si, exit, lines>>
  /\ UNCHANGED aux

\* a signal arrives while the process runs: main cancels the context and
\* CommandContext kills the process (run itself never reads the context)
Interrupt ==
  /\ proc = "running"
  /\ proc' = "killed"
  /\ UNCHANGED <<flags, code, pipe, tests, printed, sink, pc, si, exit, lines>>
  /\ UNCHANGED aux

\* scanner.Scan() returned a line
Scan ==
  /\ pc = "scan"
  /\ pipe # <<>>
  /\ LET l == Head(pipe)
         st == IF Skipped(l)
               THEN [tests |-> tests, printed |-> printed, sink |-> sink]
               ELSE LiveStep([tests |-> tests, printed |-> printed, sink |-> sink], flags, l.e)
     IN  /\ tests' = st.tests
         /\ printed' = st.printed
         /\ sink' = st.sink
         /\ lines' = Append(lines, l)
  /\ pipe' = Tail(pipe)
  /\ UNCHANGED <<flags, proc, code, pc, si, exit>>
  /\ UNCHANGED aux

\* scanner.Scan() returned false: the pipe is drained and closed
ScanEnd ==
  /\ pc = "scan"
  /\ pipe = <<>>
  /\ proc # "running"
  /\ pc' = "drain"
  /\ UNCHANGED <<flags, proc, code, pipe, tests, printed, sink, si, exit, lines>>
  /\ UNCHANGED aux

DrainNoneUnsorted ==
  /\ pc = "drain"
  /\ IF DOMAIN tests = {}
     THEN /\ pc' = "wait"
          /\ UNCHANGED <<printed, sink>>
     ELSE /\ pc' = "summary"
          /\ IF Any(flags.Results, StatusNone)
             THEN LET noneTests == FilterAction(FilterKeys(tests, printed), EndingActions)
                  IN  \E tks \in IterationOrders(DOMAIN noneTests) :
                         /\ sink' = sink \o DetailsOf(tests, tks, flags.V)
                         /\ printed' = printed \cup DOMAIN noneTests
             ELSE UNCHANGED <<printed, sink>>
  /\ UNCHANGED <<flags, proc, code, pipe, tests, si, exit, lines>>
  /\ UNCHANGED aux

\* details of the tests that never finished
DrainNone ==
  /\ pc = "drain"
  /\ IF DOMAIN tests = {}
     THEN /\ pc' = "wait"
          /\ UNCHANGED <<printed, sink>>
     ELSE /\ pc' = "summary"
          /\ IF Any(flags.Results, StatusNone)
             THEN LET noneTests == FilterAction(FilterKeys(tests, printed), EndingActions)
                  IN  \E tks \in IterationOrders(DOMAIN noneTests) :
                         /\ sink' = sink \o DetailsOf(tests, OrderedKeys(tks), flags.V)
                         /\ printed' = printed \cup DOMAIN noneTests
             ELSE UNCHANGED <<printed, sink>>
  /\ UNCHANGED <<flags, proc, code, pipe, tests, si, exit, lines>>
  /\ UNCHANGED aux

SummaryFor(status) ==
  IF status = StatusNone
  THEN FilterAction(tests, EndingActions)
  ELSE LET filtered == FindByAction(tests, status)
       IN  IF status = StatusSkip /\ flags.V <= 3 THEN FilterNotests(filtered) ELSE filtered

SummarizeBackwards ==
  /\ pc = "summary"
  /\ si <= Len(flags.Summary)
  /\ LET status == flags.Summary[Len(flags.Summary) + 1 - si]
         filtered == SummaryFor(status)
     IN  IF DOMAIN filtered # {}
         THEN \E tks \in IterationOrders(DOMAIN filtered) :
                 sink' = sink \o Emit("drain", status, PrintSummary(filtered, status, tks))
         ELSE sink' = sink
  /\ si' = si + 1
  /\ UNCHANGED <<flags, proc, code, pipe, tests, printed, pc, exit, lines>>
  /\ UNCHANGED aux

\* one round of the loop over flags.Summary
Summarize ==
  /\ pc = "summary"
  /\ si <= Len(flags.Summary)
  /\ LET status == flags.Summary[si]
         filtered == SummaryFor(status)
     IN  IF DOMAIN filtered # {}
         THEN \E tks \in IterationOrders(DOMAIN filtered) :
                 sink' = sink \o Emit("drain", status, PrintSummary(filtered, status, tks))
         ELSE sink' = sink
  /\ si' = si + 1
  /\ UNCHANGED <<flags, proc, code, pipe, tests, printed, pc, exit, lines>>
  /\ UNCHANGED aux

Coverage ==
  /\ pc = "summary"
  /\ si > Len(flags.Summary)
  /\ LET filtered == WithCoverage(tests)
     IN  IF flags.cover /\ DOMAIN filtered # {}
         THEN \E tks \in IterationOrders(DOMAIN filtered) :
                 sink' = sink \o Emit("drain", "cover", PrintCoverage(filtered, tks))
         ELSE sink' = sink
  /\ pc' = "footer"
  /\ UNCHANGED <<flags, proc, code, pipe, tests, printed, si, exit, lines>>
  /\ UNCHANGED aux

FooterLineTestsOnly ==
  [kind |-> "footer",
   pass |-> CountTests(FindByAction(tests, ActionPass)),
   fail |-> CountTests(FindByAction(tests, ActionFail)),
   none |-> CountTests(FilterAction(tests, EndingActions)),
   skip |-> CountTests(FindByAction(tests, ActionSkip))]

FooterLine ==
  [kind |-> "footer",
   pass |-> CountTests(FindByAction(tests, ActionPass)),
   fail |-> CountTests(FindByAction(tests, ActionFail)),
   none |-> Cardinality(DOMAIN FilterAction(tests, EndingActions)),
   skip |-> CountTests(FindByAction(tests, ActionSkip))]

Footer ==
  /\ pc = "footer"
  /\ sink' = sink \o Emit("drain", "footer", <<FooterLine>>)
  /\ pc' = "wait"
  /\ UNCHANGED <<flags, proc, code, pipe, tests, printed, si, exit, lines>>
  /\ UNCHANGED aux

\* cmd.Wait() and the return of run
Wait ==
  /\ pc = "wait"
  /\ proc # "running"
  /\ exit' = IF proc = "exited" /\ code # 0 THEN code ELSE 0
  /\ pc' = "done"
  /\ UNCHANGED <<flags, proc, code, pipe, tests, printed, sink, si, lines>>
  /\ UNCHANGED aux

Next ==
  \/ \E l \in StreamLines : Produce(l)
  \/ \E c \in {0, 1} : ProcExit(c)
  \/ Interrupt
  \/ Scan
  \/ ScanEnd
  \/ DrainNone
  \/ Summarize
  \/ Coverage
  \/ Footer
  \/ Wait

Spec == Init /\ [][Next]_vars

\* ------------------------------------------- the earlier run of tgoo.go
TgooStatusPass == "PASS"
TgooStatusFail == "FAIL"
TgooStatusSkip == "SKIP"
TgooStatusNone == "NONE"

RECURSIVE TgooStatus(_)
TgooStatus(es) ==
  IF es = <<>> THEN TgooStatusNone
  ELSE IF Head(es).Action = ActionFail THEN TgooStatusFail
  ELSE IF Head(es).Action = ActionPass THEN TgooStatusPass
  ELSE IF Head(es).Action = ActionSkip THEN TgooStatusSkip
  ELSE TgooStatus(Tail(es))

TgooBoringPackageOutput(e) ==
  LET output == TrimLeft(e.Output)
      outputWS == TrimSpace(e.Output)
  IN  /\ e.Action = "output"
      /\ e.Package # <<>>
      /\ e.Test = <<>>
      /\ \/ HasPrefix(output, <<"ok", " ", " ", "\t">> \o e.Package)
         \/ HasSuffix(output, <<"[no test files]", "\n">>)
         \/ output = <<"ok", " ", " ", " ">> \o e.Package \o <<"\n">>
         \/ output = <<"PASS", "\n">>
         \/ output = <<"FAIL", "\n">>
         \/ HasPrefix(outputWS, <<"coverage:">>) /\ HasSuffix(outputWS, <<"of statements">>)

RECURSIVE TgooKeepInteresting(_, _, _, _)
TgooKeepInteresting(es, failedAt, passedAt, skippedAt) ==
  IF es = <<>> THEN <<>>
  ELSE IF \/ BoringAction(Head(es))
          \/ BoringTestOutput(Head(es), failedAt, passedAt, skippedAt)
          \/ TgooBoringPackageOutput(Head(es))
       THEN TgooKeepInteresting(Tail(es), failedAt, passedAt, skippedAt)
       ELSE <<Head(es)>> \o TgooKeepInteresting(Tail(es), failedAt, passedAt, skippedAt)

TgooCompact(es) ==
  TgooKeepInteresting(es, ElapsedOfFirst(es, ActionFail),
                          ElapsedOfFirst(es, ActionPass),
                          ElapsedOfFirst(es, ActionSkip))

\* PrintDetail indexes events[0] without checking that compaction left an event
TgooPanics(es, V) == Len(es) # 0 /\ V <= 3 /\ TgooCompact(es) = <<>>

TgooPrintDetail(es, V) ==
  IF Len(es) = 0 \/ TgooPanics(es, V) THEN <<>>
  ELSE LET events == SortByTime(IF V <= 3 THEN TgooCompact(es) ELSE es)
           status == TgooStatus(events)
           i == CASE status = TgooStatusFail -> FindFirstByAction(events, {ActionFail})
                  [] status = TgooStatusPass -> FindFirstByAction(events, {ActionPass})
                  [] status = TgooStatusSkip -> FindFirstByAction(events, {ActionSkip})
                  [] OTHER -> 0
           event == IF i = 0 THEN events[1] ELSE events[i]
       IN  << [kind |-> "detail",
               status |-> status,
               Package |-> event.Package,
               Test |-> event.Test,
               elapsed |-> IF event.Elapsed >= 10 THEN Fmt2(event.Elapsed) ELSE "",
               coverage |-> FindCoverage(es),
               events |-> SelectSeq(events, LAMBDA e : ~(V <= 3 /\ e.Output = <<>>))] >>

TestsOrderedKeys(tks) ==
  SliceStable(tks, {p \in Range(tks) \X Range(tks) :
                      NaturalLess(KeyString(p[1]), KeyString(p[2]))})

FindPackageTestsByName(ts, pkg) ==
  Restrict(ts, {k \in DOMAIN ts : \E i \in 1..Len(ts[k]) : ts[k][i].Package = pkg})

FindAllPackageTests(ts) ==
  Restrict(ts, {k \in DOMAIN ts : k.Package # <<>> /\ k.Test = <<>>})

TestsFilterKeys(ts, exclude) == Restrict(ts, {k \in DOMAIN ts : k \notin exclude})

FilterPassed(ts) ==
  Restrict(ts, {k \in DOMAIN ts : FindFirstByAction(ts[k], {ActionPass}) = 0})

TestsFindByAction(ts, action) ==
  Restrict(ts, {k \in DOMAIN ts : \E i \in 1..Len(ts[k]) : ts[k][i].Action = action})

FindWithoutAction(ts, actions) ==
  Restrict(ts, {k \in DOMAIN ts : \A i \in 1..Len(ts[k]) : ts[k][i].Action \notin actions})

TestsFilterAction(ts, action) ==
  Restrict(ts, {k \in DOMAIN ts : \A i \in 1..Len(ts[k]) : ts[k][i].Action # action})

TestsSummaryRow(ts, key, action) ==
  LET events == ts[key]
      fe == IF action = "" THEN 0 ELSE FindFirstByAction(events, {action})
  IN  [Package |-> key.Package,
       Test |-> key.Test,
       elapsed |-> IF fe # 0 THEN Fmt2(events[fe].Elapsed) ELSE "",
       coverage |-> IF key.Test = <<>> THEN FindCoverage(events) ELSE <<>>]

\* action "" stands for the nil action of the NONE summary
TestsPrintSummary(ts, action, status, tks) ==
  LET keys == TestsOrderedKeys(tks)
  IN  << [kind |-> "summary", status |-> status, count |-> Cardinality(DOMAIN ts),
          rows |-> [i \in 1..Len(keys) |-> TestsSummaryRow(ts, keys[i], action)]] >>

\* PrintDetail for each key in turn, up to the first one that panics
RECURSIVE TgooDetails(_, _, _, _)
TgooDetails(ts, keys, V, acc) ==
  IF keys = <<>> THEN acc
  ELSE IF TgooPanics(ts[Head(keys)], V) THEN [acc EXCEPT !.panic = TRUE]
  ELSE TgooDetails(ts, Tail(keys), V,
                   [sink |-> acc.sink \o Emit(acc.phase, Head(keys),
                                              TgooPrintDetail(ts[Head(keys)], V)),
                    printed |-> acc.printed \cup {Head(keys)},
                    phase |-> acc.phase,
                    panic |-> FALSE])

TgooFlagSets ==
  { [V |-> 0, ShowSkipped |-> FALSE, ShowNone |-> TRUE, ShowFailed |-> TRUE,
     ShowPass |-> FALSE, cover |-> FALSE],
    [V |-> 1, ShowSkipped |-> FALSE, ShowNone |-> TRUE, ShowFailed |-> TRUE,
     ShowPass |-> FALSE, cover |-> TRUE],
    [V |-> 5, ShowSkipped |-> TRUE, ShowNone |-> TRUE, ShowFailed |-> TRUE,
     ShowPass |-> TRUE, cover |-> FALSE] }

\* the variables of the tgoo.go run
tgooVars == <<proc, pipe, tests, printed, sink, pc, si, exit, lines, mpc, ctxDone>>

InitTgoo ==
  /\ flags \in TgooFlagSets
  /\ proc = "running"
  /\ code = 0
  /\ pipe = <<>>
  /\ tests = EmptyStorage
  /\ printed = {}
  /\ sink = <<>>
  /\ pc = "scan"
  /\ si = 1
  /\ exit = 0
  /\ lines = <<>>
  /\ mpc = "select"
  /\ ctxDone = FALSE
  /\ arg = <<>>
  /\ op = "none"
  /\ res = <<>>

\* a signal arrives: main cancels the context; CommandContext kills the
\* process and the select of run can see ctx.Done()
TgooInterrupt ==
  /\ mpc = "select"
  /\ ~ctxDone
  /\ ctxDone' = TRUE
  /\ proc' = IF proc = "running" THEN "killed" ELSE proc
  /\ UNCHANGED <<flags, code, pipe, tests, printed, sink, pc, si, exit, lines,
                 mpc, arg, op, res>>

\* a panic in the goroutine ends the whole program
TgooAfter(acc, nextpc) ==
  /\ sink' = acc.sink
  /\ printed' = acc.printed
  /\ IF acc.panic
     THEN pc' = "panic" /\ mpc' = "panic" /\ exit' = 2
     ELSE pc' = nextpc /\ UNCHANGED <<mpc, exit>>

\* one round of the scan loop of the goroutine
TgooScan ==
  /\ mpc = "select"
  /\ pc = "scan"
  /\ pipe # <<>>
  /\ LET l == Head(pipe)
         e == l.e
         ts == IF Skipped(l) THEN tests ELSE TestStorageAppend(tests, e)
         acc == [sink |-> sink, printed |-> printed, phase |-> "live", panic |-> FALSE]
     IN  /\ tests' = ts
         /\ lines' = Append(lines, l)
         /\ IF ~Skipped(l) /\ e.Action = ActionFail /\ e.Test = <<>>
            THEN LET packageTests ==
                       FilterPassed(TestsFilterKeys(FindPackageTestsByName(ts, e.Package), printed))
                 IN  \E tks \in IterationOrders(DOMAIN packageTests) :
                        TgooAfter(TgooDetails(ts, TestsOrderedKeys(tks), flags.V, acc), "scan")
            ELSE IF ~Skipped(l) /\ e.Action = ActionFail /\ e.Test # <<>>
            THEN TgooAfter(TgooDetails(ts, <<EventKey(e)>>, flags.V, acc), "scan")
            ELSE TgooAfter(acc, "scan")
  /\ pipe' = Tail(pipe)
  /\ UNCHANGED <<flags, proc, code, si, ctxDone, arg, op, res>>

TgooScanEnd ==
  /\ mpc = "select"
  /\ pc = "scan"
  /\ pipe = <<>>
  /\ proc # "running"
  /\ pc' = "rest"
  /\ UNCHANGED <<flags, proc, code, pipe, tests, printed, sink, si, exit, lines,
                 mpc, ctxDone, arg, op, res>>

\* at V >= 1 the details of everything not printed yet
TgooRest ==
  /\ mpc = "select"
  /\ pc = "rest"
  /\ LET restTests == TestsFilterKeys(tests, printed)
         acc == [sink |-> sink, printed |-> printed, phase |-> "drain", panic |-> FALSE]
     IN  IF flags.V >= 1
         THEN \E tks \in IterationOrders(DOMAIN restTests) :
                 TgooAfter(TgooDetails(tests, TestsOrderedKeys(tks), flags.V, acc), "summary")
         ELSE TgooAfter(acc, "summary")
  /\ UNCHANGED <<flags, proc, code, pipe, tests, si, lines, ctxDone, arg, op, res>>

TgooPassTests == TestsFindByAction(tests, ActionPass)

TgooSkipTests == TestsFindByAction(tests, ActionSkip)

TgooFilteredTests == TestsFilterAction(TestsFilterAction(tests, ActionPass), ActionSkip)

TgooNoneTests == FindWithoutAction(TgooFilteredTests, {ActionFail, ActionPass, ActionSkip})

TgooFailTests == TestsFindByAction(TgooFilteredTests, ActionFail)

\* the four summaries in the order the goroutine prints them: the storage to
\* list (empty when the flags hide it), the action and the status
TgooSummary(n) ==
  CASE n = 1 -> [ts |-> IF flags.ShowPass THEN TgooPassTests
                        ELSE IF flags.cover THEN FindAllPackageTests(TgooPassTests)
                        ELSE EmptyStorage,
                 action |-> ActionPass, status |-> TgooStatusPass]
    [] n = 2 -> [ts |-> IF flags.ShowSkipped THEN TgooSkipTests ELSE EmptyStorage,
                 action |-> ActionSkip, status |-> TgooStatusSkip]
    [] n = 3 -> [ts |-> IF flags.ShowNone THEN TgooNoneTests ELSE EmptyStorage,
                 action |-> "", status |-> TgooStatusNone]
    [] n = 4 -> [ts |-> IF flags.ShowFailed THEN TgooFailTests ELSE EmptyStorage,
                 action |-> ActionFail, status |-> TgooStatusFail]

TgooSummarize ==
  /\ mpc = "select"
  /\ pc = "summary"
  /\ si <= 4
  /\ LET sm == TgooSummary(si)
     IN  IF DOMAIN sm.ts # {}
         THEN \E tks \in IterationOrders(DOMAIN sm.ts) :
                 sink' = sink \o Emit("drain", sm.status,
                                      TestsPrintSummary(sm.ts, sm.action, sm.status, tks))
         ELSE sink' = sink
  /\ si' = si + 1
  /\ UNCHANGED <<flags, proc, code, pipe, tests, printed, pc, exit, lines,
                 mpc, ctxDone, arg, op, res>>

\* the counts line, then doneC <- true
TgooFooter ==
  /\ mpc = "select"
  /\ pc = "summary"
  /\ si > 4
  /\ sink' = sink \o Emit("drain", "footer",
                          << [kind |-> "footer",
                              pass |-> Cardinality(DOMAIN TgooPassTests),
                              fail |-> Cardinality(DOMAIN TgooFailTests),
                              none |-> Cardinality(DOMAIN TgooNoneTests),
                              skip |-> Cardinality(DOMAIN TgooSkipTests)] >>)
  /\ pc' = "done"
  /\ UNCHANGED <<flags, proc, code, pipe, tests, printed, si, exit, lines,
                 mpc, ctxDone, arg, op, res>>

\* the select of run receives from doneC: cancel, cmd.Wait, return nil
TgooMainDone ==
  /\ mpc = "select"
  /\ pc = "done"
  /\ mpc' = "returned"
  /\ exit' = 0
  /\ ctxDone' = TRUE
  /\ proc' = IF proc = "running" THEN "killed" ELSE proc
  /\ UNCHANGED <<flags, code, pipe, tests, printed, sink, pc, si, lines, arg, op, res>>

\* the select of run takes <-ctx.Done(): run returns ctx.Err() and main exits
TgooMainCtxDone ==
  /\ mpc = "select"
  /\ ctxDone
  /\ mpc' = "returned"
  /\ exit' = 1
  /\ UNCHANGED <<flags, proc, code, pipe, tests, printed, sink, pc, si, lines,
                 ctxDone, arg, op, res>>

NextTgoo ==
  \/ \E l \in StreamLines : Produce(l)
  \/ \E c \in {0, 1} : ProcExit(c)
  \/ TgooInterrupt
  \/ TgooScan
  \/ TgooScanEnd
  \/ TgooRest
  \/ TgooSummarize
  \/ TgooFooter
  \/ TgooMainDone
  \/ TgooMainCtxDone

SpecTgoo == InitTgoo /\ [][NextTgoo]_vars

\* --------------------------------------------- function checks: Events
SeqsUpTo(S, n) == UNION {[1..m -> S] : m \in 0..n}

\* events of the per-test Key (a, T)
TestHistEvents ==
  { Ev(1, ActionRun, PkgA, TestT, 0, <<>>),
    Ev(1, ActionOutput, PkgA, TestT, 0, <<"=== RUN", " ", " ", " ">> \o TestT \o <<"\n">>),
    Ev(2, ActionOutput, PkgA, TestT, 0, <<" ", " ">> \o Line("--- PASS:", TestT, 0)),
    Ev(2, ActionOutput, PkgA, TestT, 0, Line("--- PASS:", TestT, 10)),
    Ev(2, ActionOutput, PkgA, TestT, 0, Line("--- FAIL:", TestT, 0)),
    Ev(2, ActionOutput, PkgA, TestT, 0, Line("--- SKIP:", TestT, 20)),
    Ev(2, ActionOutput, PkgA, TestT, 0, <<"boom", "\n">>),
    Ev(3, ActionPass, PkgA, TestT, 0, <<>>),
    Ev(2, ActionPass, PkgA, TestT, 14, <<>>),
    Ev(1, ActionFail, PkgA, TestT, 10, <<>>),
    Ev(3, ActionSkip, PkgA, TestT, 20, <<>>),
    Ev(3, ActionBench, PkgA, TestT, 0, <<>>) }

\* events of the package-level Key (a, "")
PkgHistEvents ==
  { Ev(1, ActionOutput, PkgA, <<>>, 0, <<"PASS", "\n">>),
    Ev(2, ActionOutput, PkgA, <<>>, 0,
       <<"ok", " ", " ", "\t">> \o PkgA \o <<"\t", "0.01s", "\n">>),
    Ev(2, ActionOutput, PkgA, <<>>, 0,
       <<"coverage:", " ", "87.5%", " ", "of statements", "\n">>),
    Ev(2, ActionOutput, PkgA, <<>>, 0,
       <<"FAIL", "\t">> \o PkgA \o <<"\t", "0.01s", "\n">>),
    Ev(2, ActionOutput, PkgA, <<>>, 0, <<"hello", "\n">>),
    Ev(3, ActionPass, PkgA, <<>>, 20, <<>>) }

Histories == SeqsUpTo(TestHistEvents, MaxHist) \cup SeqsUpTo(PkgHistEvents, MaxHist)

\* the variables of the run, which the function checks leave alone
ctl == <<flags, proc, code, pipe, tests, printed, sink, pc, si, exit, lines, mpc, ctxDone>>

CtlIdle ==
  /\ flags = [Results |-> <<>>, Summary |-> <<>>, V |-> 0, cover |-> FALSE]
  /\ proc = "none"
  /\ code = 0
  /\ pipe = <<>>
  /\ tests = EmptyStorage
  /\ printed = {}
  /\ sink = <<>>
  /\ pc = "none"
  /\ si = 1
  /\ exit = 0
  /\ lines = <<>>
  /\ mpc = "none"
  /\ ctxDone = FALSE

InitEvents ==
  /\ CtlIdle
  /\ arg \in Histories
  /\ op = "init"
  /\ res = <<>>

DoStatus ==
  /\ op = "init"
  /\ op' = "Status"
  /\ res' = Status(arg)
  /\ UNCHANGED <<arg, ctl>>

DoCompact ==
  /\ op = "init"
  /\ op' = "Compact"
  /\ res' = Compact(arg)
  /\ UNCHANGED <<arg, ctl>>

\* Compact applied to what Compact returned
DoCompactAgain ==
  /\ op = "Compact"
  /\ op' = "Compact2"
  /\ res' = [once |-> res, twice |-> Compact(res)]
  /\ UNCHANGED <<arg, ctl>>

NextEvents == DoStatus \/ DoCompact \/ DoCompactAgain

SpecEvents == InitEvents /\ [][NextEvents]_vars

\* ------------------------------------------ function checks: SortByTime
InitSort ==
  /\ CtlIdle
  /\ arg \in Histories
  /\ op = "init"
  /\ res = <<>>

DoSortByTime ==
  /\ op = "init"
  /\ op' = "SortByTime"
  /\ res' = SortByTime(arg)
  /\ UNCHANGED <<arg, ctl>>

NextSort == DoSortByTime

SpecSort == InitSort /\ [][NextSort]_vars

\* --------------------------------------------- function checks: Compact
\* events of the per-test Key (a, T), every action of the stream among them
CompactHistEvents ==
  { Ev(1, ActionRun, PkgA, TestT, 0, <<>>),
    Ev(1, ActionPause, PkgA, TestT, 0, <<>>),
    Ev(1, ActionCont, PkgA, TestT, 0, <<>>),
    Ev(1, ActionOutput, PkgA, TestT, 0, <<"=== RUN", " ", " ", " ">> \o TestT \o <<"\n">>),
    Ev(2, ActionOutput, PkgA, TestT, 0, Line("--- PASS:", TestT, 10)),
    Ev(2, ActionOutput, PkgA, TestT, 0, <<"boom", "\n">>),
    Ev(3, ActionPass, PkgA, TestT, 10, <<>>),
    Ev(3, ActionFail, PkgA, TestT, 10, <<>>),
    Ev(3, ActionSkip, PkgA, TestT, 0, <<>>),
    Ev(3, ActionBench, PkgA, TestT, 0, <<>>) }

InitCompact ==
  /\ CtlIdle
  /\ arg \in SeqsUpTo(CompactHistEvents, MaxHist)
  /\ op = "init"
  /\ res = <<>>

DoCompactHistory ==
  /\ op = "init"
  /\ op' = "Compact"
  /\ res' = Compact(arg)
  /\ UNCHANGED <<arg, ctl>>

NextCompact == DoCompactHistory

SpecCompact == InitCompact /\ [][NextCompact]_vars

\* --------------------------------------- function checks: FindCoverage
CoverLine(pre, value, post) ==
  pre \o <<"coverage:", " ", value, " ", "of statements">> \o post

\* events of the per-test Key (a, T), one of them a coverage line
CoverTestEvents ==
  { Ev(1, ActionOutput, PkgA, TestT, 0, CoverLine(<<>>, "87.5%", <<"\n">>)),
    Ev(2, ActionOutput, PkgA, TestT, 0, <<"boom", "\n">>),
    Ev(3, ActionPass, PkgA, TestT, 10, <<>>) }

\* events of the package-level Key (a, ""): coverage lines, lines that only
\* look like one, and a pass event
CoverPkgEvents ==
  { Ev(1, ActionOutput, PkgA, <<>>, 0, CoverLine(<<>>, "87.5%", <<"\n">>)),
    Ev(2, ActionOutput, PkgA, <<>>, 0, CoverLine(<<"\t", " ">>, "50.0%", <<" ", "\n">>)),
    Ev(2, ActionOutput, PkgA, <<>>, 0,
       <<"ok", " ", " ", "\t">> \o PkgA \o <<"\t", "0.01s", "\t">> \o CoverLine(<<>>, "87.5%", <<"\n">>)),
    Ev(2, ActionOutput, PkgA, <<>>, 0, CoverLine(<<>>, "10.0%", <<" ", "in", " ", "./...", "\n">>)),
    Ev(2, ActionOutput, PkgA, <<>>, 0, <<"coverage:", "87.5%", " ", "of statements", "\n">>),
    Ev(2, ActionOutput, PkgA, <<>>, 0, <<"coverage:", " ", "of statements", "\n">>),
    Ev(3, ActionPass, PkgA, <<>>, 20, CoverLine(<<>>, "99.9%", <<"\n">>)) }

CoverHistories == SeqsUpTo(CoverTestEvents, MaxHist) \cup SeqsUpTo(CoverPkgEvents, MaxHist)

InitCoverage ==
  /\ CtlIdle
  /\ arg \in CoverHistories
  /\ op = "init"
  /\ res = <<>>

DoFindCoverage ==
  /\ op = "init"
  /\ op' = "FindCoverage"
  /\ res' = FindCoverage(arg)
  /\ UNCHANGED <<arg, ctl>>

NextCoverage == DoFindCoverage

SpecCoverage == InitCoverage /\ [][NextCoverage]_vars

\* ---------------------------------------- function checks: PrintDetail
Verbosities == 0..5

InitDetail ==
  /\ CtlIdle
  /\ arg \in Histories
  /\ op = "init"
  /\ res = <<>>

DoPrintDetail(V) ==
  /\ op = "init"
  /\ op' = "PrintDetail"
  /\ res' = [V |-> V, out |-> PrintDetail(arg, V)]
  /\ UNCHANGED <<arg, ctl>>

NextDetail == \E V \in Verbosities : DoPrintDetail(V)

SpecDetail == InitDetail /\ [][NextDetail]_vars

\* ------------------------------------ function checks: the store in memory
\* Memory holds the backing arrays of the Events slices and the map objects,
\* each at an address (its index); a map object takes a Key to the address of
\* the array of its history.
RECURSIVE StoreOf(_)
StoreOf(evs) ==
  IF evs = <<>> THEN EmptyStorage
  ELSE TestStorageAppend(StoreOf(SubSeq(evs, 1, Len(evs) - 1)), evs[Len(evs)])

Stores == {StoreOf(evs) : evs \in SeqsUpTo(StreamEvents, MaxEvents)}

\* the store at map address 1, its histories at the first array addresses
Memory(ts) ==
  LET ks == CHOOSE f \in IterationOrders(DOMAIN ts) : TRUE
  IN  [arrays |-> [i \in 1..Len(ks) |-> ts[ks[i]]],
       maps |-> << [k \in DOMAIN ts |-> CHOOSE i \in 1..Len(ks) : ks[i] = k] >>]

\* the storage a map object stands for
Deref(mem, m) == [k \in DOMAIN mem.maps[m] |-> mem.arrays[mem.maps[m][k]]]

CloneShared(mem, a) == [mem |-> mem, at |-> a]

\* make(Events, len(es)) and the copy loop: the copy is a new array
Clone(mem, a) ==
  [mem |-> [mem EXCEPT !.arrays = Append(@, mem.arrays[a])],
   at |-> Len(mem.arrays) + 1]

\* var v Events and the appends of Compact: the result is a new array
CompactInMemory(mem, a) ==
  [mem |-> [mem EXCEPT !.arrays = Append(@, Compact(mem.arrays[a]))],
   at |-> Len(mem.arrays) + 1]

\* sort.SliceStable on the receiver: the array is sorted where it is
SortByTimeInMemory(mem, a) == [mem EXCEPT !.arrays[a] = SortByTime(@)]

\* the writes of PrintDetail called on the slice at address a
PrintDetailInMemory(mem, a, V) ==
  IF Len(mem.arrays[a]) = 0 THEN mem
  ELSE LET c == Clone(mem, a)
           events == IF V <= 3 THEN CompactInMemory(c.mem, c.at) ELSE c
       IN  IF Len(events.mem.arrays[events.at]) = 0 THEN events.mem
           ELSE SortByTimeInMemory(events.mem, events.at)

\* tests := make(TestStorage, 0) and tests[key] = events for the keys kept:
\* a new map object whose entries share the arrays of the receiver's
NewStorage(mem, m, keys) ==
  [mem EXCEPT !.maps = Append(@, Restrict(mem.maps[m], keys))]

InitMemory ==
  /\ CtlIdle
  /\ arg \in Stores
  /\ op = "init"
  /\ res = <<>>

DoPrintDetailStored(key, V) ==
  /\ op = "init"
  /\ key \in DOMAIN arg
  /\ op' = "PrintDetail"
  /\ LET mem == Memory(arg)
     IN  res' = [mem |-> PrintDetailInMemory(mem, mem.maps[1][key], V), key |-> key, V |-> V]
  /\ UNCHANGED <<arg, ctl>>

DoFilterKeys(exclude) ==
  /\ op = "init"
  /\ op' = "FilterKeys"
  /\ LET mem == Memory(arg)
     IN  res' = [mem |-> NewStorage(mem, 1, DOMAIN FilterKeys(Deref(mem, 1), exclude))]
  /\ UNCHANGED <<arg, ctl>>

DoFindByAction(action) ==
  /\ op = "init"
  /\ op' = "FindByAction"
  /\ LET mem == Memory(arg)
     IN  res' = [mem |-> NewStorage(mem, 1, DOMAIN FindByAction(Deref(mem, 1), action))]
  /\ UNCHANGED <<arg, ctl>>

DoFilterAction ==
  /\ op = "init"
  /\ op' = "FilterAction"
  /\ LET mem == Memory(arg)
     IN  res' = [mem |-> NewStorage(mem, 1, DOMAIN FilterAction(Deref(mem, 1), EndingActions))]
  /\ UNCHANGED <<arg, ctl>>

DoFilterNotests ==
  /\ op = "init"
  /\ op' = "FilterNotests"
  /\ LET mem == Memory(arg)
     IN  res' = [mem |-> NewStorage(mem, 1, DOMAIN FilterNotests(Deref(mem, 1)))]
  /\ UNCHANGED <<arg, ctl>>

DoWithCoverage ==
  /\ op = "init"
  /\ op' = "WithCoverage"
  /\ LET mem == Memory(arg)
     IN  res' = [mem |-> NewStorage(mem, 1, DOMAIN WithCoverage(Deref(mem, 1)))]
  /\ UNCHANGED <<arg, ctl>>

\* PrintSummary and PrintCoverage range over OrderedKeys and read the
\* histories: no assignment to the map or to an element of a slice
DoPrintSummary(status) ==
  /\ op = "init"
  /\ op' = "PrintSummary"
  /\ LET mem == Memory(arg)
     IN  \E tks \in IterationOrders(DOMAIN arg) :
            res' = [mem |-> mem, out |-> PrintSummary(Deref(mem, 1), status, tks)]
  /\ UNCHANGED <<arg, ctl>>

DoPrintCoverage ==
  /\ op = "init"
  /\ op' = "PrintCoverage"
  /\ LET mem == Memory(arg)
     IN  \E tks \in IterationOrders(DOMAIN arg) :
            res' = [mem |-> mem, out |-> PrintCoverage(Deref(mem, 1), tks)]
  /\ UNCHANGED <<arg, ctl>>

NextMemory ==
  \/ \E key \in DOMAIN arg, V \in Verbosities : DoPrintDetailStored(key, V)
  \/ \E exclude \in SUBSET DOMAIN arg : DoFilterKeys(exclude)
  \/ \E action \in Range(EndingActions) : DoFindByAction(action)
  \/ DoFilterAction
  \/ DoFilterNotests
  \/ DoWithCoverage
  \/ \E status \in Range(AllStatuses) : DoPrintSummary(status)
  \/ DoPrintCoverage

SpecMemory == InitMemory /\ [][NextMemory]_vars

\* ---------------------------------------- function checks: Statuses.Set
MaxValue == 3

\* the pieces a flag value is made of: names in several cases, the two
\* special values, the separator and a name that is no status
ValueTokens == {"fail", "FAIL", "Pass", "none", "all", "ALL", "-", ",", "x"}

Lower(c) ==
  CASE c = "FAIL" -> "fail"
    [] c = "Pass" -> "pass"
    [] c = "ALL" -> "all"
    [] OTHER -> c

KeepCase(v) == v

\* strings.ToLower
ToLower(v) == [i \in 1..Len(v) |-> Lower(v[i])]

\* strings.Split(v, ","): the pieces between the separators, empty ones kept
RECURSIVE Split(_)
Split(v) ==
  IF \A i \in 1..Len(v) : v[i] # ","
  THEN <<v>>
  ELSE LET i == CHOOSE j \in 1..Len(v) : v[j] = "," /\ \A n \in 1..(j - 1) : v[n] # ","
       IN  <<SubSeq(v, 1, i - 1)>> \o Split(SubSeq(v, i + 1, Len(v)))

\* AllStatuses.Any(Status(v)) for a piece of the value
ValidStatus(word) == Len(word) = 1 /\ Any(AllStatuses, word[1])

\* the loop over the pieces: the statuses appended before the first piece
\* that is no status, and whether there was one
RECURSIVE CollectStatuses(_, _)
CollectStatuses(words, statuses) ==
  IF words = <<>> THEN [statuses |-> statuses, err |-> FALSE]
  ELSE IF ~ValidStatus(Head(words)) THEN [statuses |-> statuses, err |-> TRUE]
  ELSE CollectStatuses(Tail(words), Append(statuses, Head(words)[1]))

\* Set on the receiver at address ss; address 1 holds the array of AllStatuses
StatusesSet(arrays, ss, input) ==
  LET value == ToLower(input)
  IN  IF value = <<"-">>
      THEN [arrays |-> Append(arrays, <<>>), ss |-> Len(arrays) + 1, err |-> FALSE]
      ELSE IF value = <<"all">>
      THEN [arrays |-> Append(arrays, arrays[1]), ss |-> Len(arrays) + 1, err |-> FALSE]
      ELSE LET c == CollectStatuses(Split(value), <<>>)
           IN  IF c.err
               THEN [arrays |-> arrays, ss |-> ss, err |-> TRUE]
               ELSE [arrays |-> Append(arrays, c.statuses), ss |-> Len(arrays) + 1,
                     err |-> FALSE]

\* the receiver before the call: nothing set yet, or the default of a flag
Receivers == {<<>>, <<StatusFail, StatusNone>>}

InitSet ==
  /\ CtlIdle
  /\ arg \in [ss : Receivers, value : SeqsUpTo(ValueTokens, MaxValue)]
  /\ op = "init"
  /\ res = <<>>

DoSet ==
  /\ op = "init"
  /\ op' = "Set"
  /\ res' = StatusesSet(<<AllStatuses, arg.ss>>, 2, arg.value)
  /\ UNCHANGED <<arg, ctl>>

NextSet == DoSet

SpecSet == InitSet /\ [][NextSet]_vars

\* ---------------------------------------- function checks: OrderedKeys
PkgAT2 == <<"a", ".", "T", "2">>
TestT2 == <<"T", "2">>
TestT10 == <<"T", "1", "0">>

Key(pkg, test) == [Package |-> pkg, Test |-> test]

KeyPool ==
  { Key(PkgA, <<>>), Key(PkgA, TestT2), Key(PkgA, TestT10),
    Key(PkgAB, <<>>), Key(PkgAB, TestT2), Key(PkgAT2, <<>>) }

\* a map with at most MaxKeys keys, ranged over in one of its iteration orders
KeySlices ==
  UNION {IterationOrders(ks) : ks \in {x \in SUBSET KeyPool : Cardinality(x) <= MaxKeys}}

InitOrder ==
  /\ CtlIdle
  /\ arg \in KeySlices
  /\ op = "init"
  /\ res = <<>>

DoOrderedKeys ==
  /\ op = "init"
  /\ op' = "OrderedKeys"
  /\ res' = OrderedKeys(arg)
  /\ UNCHANGED <<arg, ctl>>

NextOrder == DoOrderedKeys

SpecOrder == InitOrder /\ [][NextOrder]_vars

\* ------------------------------------------------- properties of the run
IsDetail(r) == r.out.kind = "detail"

DetailCount(k, phases) ==
  Cardinality({i \in 1..Len(sink) :
                 IsDetail(sink[i]) /\ sink[i].phase \in phases /\ sink[i].key = k})

\* the keys of the detail lines written by the scan loop, in output order
LiveKeys ==
  LET d == SelectSeq(sink, LAMBDA r : IsDetail(r) /\ r.phase = "live")
  IN  [i \in 1..Len(d) |-> d[i].key]

GoodEvents(ls) ==
  LET ok == SelectSeq(ls, LAMBDA l : l.json = "ok")
  IN  [i \in 1..Len(ok) |-> ok[i].e]

Terminal == {ActionFail, ActionPass, ActionSkip, ActionBench}

\* the action, read as a status, is one the operator asked to see live
Wanted(e) == e.Action \in Terminal /\ e.Action \in Range(flags.Results)

WantedCount(es) == Cardinality({i \in 1..Len(es) : Wanted(es[i])})

\* C1: in the live phase a Key's detail line is written at most once; once the
\* Key is in the rendered set no later event for it writes another one.
C1_LiveAtMostOnce ==
  \A k \in DOMAIN tests :
     /\ DetailCount(k, {"live"}) <= 1
     /\ (pc = "scan" /\ WantedCount(tests[k]) >= 1) => k \in printed

C1_Witness ==
  \E k \in printed : WantedCount(tests[k]) >= 2 /\ DetailCount(k, {"live"}) = 1

RECURSIVE Replay(_, _)
Replay(evs, f) ==
  IF evs = <<>>
  THEN [tests |-> EmptyStorage, printed |-> {}, sink |-> <<>>]
  ELSE LiveStep(Replay(SubSeq(evs, 1, Len(evs) - 1), f), f, evs[Len(evs)])

LiveSink == SelectSeq(sink, LAMBDA r : r.phase = "live")

\* C8: a line that does not decode changes neither the store nor the rendered
\* set nor the output, and the loop goes on: store, live output and rendered
\* set are those of the same stream without its undecodable lines.
C8_BadLinesSkipped ==
  LET clean == Replay(GoodEvents(lines), flags)
  IN  /\ tests = clean.tests
      /\ LiveSink = clean.sink
      /\ pc = "scan" => (printed = clean.printed /\ sink = clean.sink)
      /\ \A k \in DOMAIN tests :
            tests[k] = SelectSeq(GoodEvents(lines), LAMBDA e : EventKey(e) = k)

C8_Witness ==
  /\ Len(lines) >= 3
  /\ \E i \in 2..(Len(lines) - 1) :
        /\ lines[i].json = "bad"
        /\ lines[i - 1].json = "ok"
        /\ lines[i + 1].json = "ok"
        /\ Wanted(lines[i + 1].e)
  /\ sink # <<>>

RECURSIVE FirstWanted(_, _)
FirstWanted(evs, seen) ==
  IF evs = <<>> THEN <<>>
  ELSE LET k == EventKey(Head(evs))
       IN  IF Wanted(Head(evs)) /\ k \notin seen
           THEN <<k>> \o FirstWanted(Tail(evs), seen \cup {k})
           ELSE FirstWanted(Tail(evs), seen)

\* C10: the Keys rendered live appear in the order of arrival of each Key's
\* first event matching the render-on filter, and the line is written in the
\* step that appends that event.
C10_CompletionOrder == LiveKeys = FirstWanted(GoodEvents(lines), {})

C10_Witness ==
  /\ Len(LiveKeys) >= 2
  /\ KeyLess(LiveKeys[2], LiveKeys[1])
  /\ pc = "scan"

\* --------------------------------------------- properties of Events
TerminalAt(h) == {i \in 1..Len(h) : h[i].Action \in Terminal}

Least(S) == CHOOSE i \in S : \A j \in S : i <= j

\* C3: Status is total and is the status of the earliest fail, pass, skip or
\* bench event of the history, whatever follows it; none exactly when the
\* history has no such event.
C3_StatusFirstMatch ==
  op = "Status" =>
    /\ res \in Range(AllStatuses)
    /\ IF TerminalAt(arg) = {}
       THEN res = StatusNone
       ELSE res = arg[Least(TerminalAt(arg))].Action /\ res # StatusNone

C3_Witness ==
  /\ op = "Status"
  /\ Cardinality(TerminalAt(arg)) >= 2
  /\ res = StatusPass
  /\ \E i \in TerminalAt(arg) : arg[i].Action = ActionFail

\* C4: compacting a compacted history changes nothing, event for event.
C4_CompactIdempotent == op = "Compact2" => res.twice = res.once

IsVerdictLine(e, mark) ==
  /\ e.Action = ActionOutput
  /\ e.Test # <<>>
  /\ \E x \in {"0.00", "0.01", "0.02"} :
        TrimLeft(e.Output) = <<mark, " ">> \o e.Test \o <<" ", "(", x, "s)", "\n">>

C4_Witness ==
  /\ op = "Compact2"
  /\ Len(res.once) < Len(arg)
  /\ \E i \in 1..Len(res.once) : IsVerdictLine(res.once[i], "--- PASS:")
  /\ \E i \in 1..Len(res.once) : res.once[i].Action = ActionPass

VerdictOf(mark) ==
  CASE mark = "--- PASS:" -> ActionPass
    [] mark = "--- FAIL:" -> ActionFail
    [] mark = "--- SKIP:" -> ActionSkip

\* C5: Compact drops a "--- PASS: <test> (<x>s)" output line (likewise FAIL and
\* SKIP) only when the history has a pass (fail, skip) event and x is the elapsed
\* value of the first one; otherwise the line is kept.
C5_VerdictLineNeedsEvent ==
  op = "Compact" =>
    \A i \in 1..Len(arg) : \A mark \in {"--- PASS:", "--- FAIL:", "--- SKIP:"} :
       (IsVerdictLine(arg[i], mark) /\ arg[i] \notin Range(res)) =>
          \E j \in 1..Len(arg) :
             /\ arg[j].Action = VerdictOf(mark)
             /\ \A n \in 1..(j - 1) : arg[n].Action # VerdictOf(mark)
             /\ TrimLeft(arg[i].Output) = Line(mark, arg[i].Test, arg[j].Elapsed)

\* ------------------------------------------ properties of OrderedKeys
\* C6: OrderedKeys puts the package-level Key of a package after every
\* per-test Key of that package, whatever the iteration order.
C6_PackageKeyLast ==
  op = "OrderedKeys" =>
    \A i, j \in 1..Len(res) :
       (res[i].Package = res[j].Package /\ res[i].Test = <<>> /\ res[j].Test # <<>>)
          => j < i

\* C7: the comparison of OrderedKeys is a strict total order on distinct Keys,
\* so the result does not depend on the iteration order.
C7_StrictTotalOrder ==
  op = "OrderedKeys" =>
    /\ \A x, y, z \in Range(arg) :
          /\ ~KeyLess(x, x)
          /\ (KeyLess(x, y) /\ KeyLess(y, z)) => KeyLess(x, z)
          /\ x # y => (KeyLess(x, y) \/ KeyLess(y, x))
    /\ \A tks \in IterationOrders(Range(arg)) : OrderedKeys(tks) = res

\* ------------------------------------------ properties of cancellation
HasFooter == \E i \in 1..Len(sink) : sink[i].out.kind = "footer"

\* C9: when the producer is killed by a cancellation while lines are still
\* being read, run returns only after the draining phase has run to its end
\* over the events appended so far (the footer has been written).
C9_DrainsBeforeReturn ==
  (mpc = "returned" /\ proc = "killed" /\ DOMAIN tests # {}) => (pc = "done" /\ HasFooter)

\* ------------------------------------- properties of the draining phase
RowKeys(o) == {Key(o.rows[i].Package, o.rows[i].Test) : i \in DOMAIN o.rows}

Summaries(status) ==
  {i \in 1..Len(sink) : sink[i].out.kind = "summary" /\ sink[i].out.status = status}

NoneKeys == {k \in DOMAIN tests : Status(tests[k]) = StatusNone}

\* C11: a Key without terminal action is never dropped silently: the None
\* summary lists exactly the Keys whose Status is none, every other summary
\* lists none of them, and the footer's none count is their number.
C11_NoneNeverDropped ==
  /\ \A i \in 1..Len(sink) :
        LET o == sink[i].out
        IN  /\ o.kind = "footer" => o.none = Cardinality(NoneKeys)
            /\ o.kind = "summary" =>
                 IF o.status = StatusNone
                 THEN RowKeys(o) = NoneKeys
                 ELSE RowKeys(o) \cap NoneKeys = {}
  /\ (pc \in {"footer", "wait", "done"} /\ NoneKeys # {} /\ StatusNone \in Range(flags.Summary))
       => Summaries(StatusNone) # {}
  /\ (pc \in {"wait", "done"} /\ NoneKeys # {}) => HasFooter

C11_Witness ==
  /\ pc = "done"
  /\ \E k \in NoneKeys : k.Test = <<>>
  /\ Summaries(StatusNone) # {}
  /\ Summaries(StatusFail) # {}
  /\ HasFooter

PhaseRank(p) ==
  CASE p = "scan" -> 0
    [] p = "drain" -> 1
    [] p = "summary" -> 2
    [] p = "footer" -> 3
    [] p = "wait" -> 4
    [] p = "done" -> 5

OutRank(r) ==
  CASE r.out.kind = "detail" -> IF r.phase = "live" THEN 0 ELSE 1
    [] r.out.kind = "summary" -> 2
    [] r.out.kind = "coverage" -> 3
    [] r.out.kind = "footer" -> 4

SummaryPos(status) == CHOOSE n \in 1..Len(flags.Summary) : flags.Summary[n] = status

Footers == {i \in 1..Len(sink) : sink[i].out.kind = "footer"}

\* details, then summaries in the order of flags.Summary, then coverage
SinkInOrder ==
  /\ \A i, j \in 1..Len(sink) : i < j => OutRank(sink[i]) <= OutRank(sink[j])
  /\ \A i, j \in 1..Len(sink) :
        (i < j /\ sink[i].out.kind = "summary" /\ sink[j].out.kind = "summary")
          => SummaryPos(sink[i].out.status) < SummaryPos(sink[j].out.status)
  /\ \A i \in 1..Len(sink) : sink[i].out.kind = "coverage" => flags.cover
  /\ pc = "scan" => \A i \in 1..Len(sink) : OutRank(sink[i]) = 0
  /\ pc \notin {"wait", "done"} => Footers = {}

OneFooterLast == Cardinality(Footers) = 1 /\ sink[Len(sink)].out.kind = "footer"

\* the run never goes back, and the store is closed once the scan loop ends
PhaseStep ==
  /\ PhaseRank(pc') >= PhaseRank(pc)
  /\ pc # "scan" => (tests' = tests /\ lines' = lines)

\* C12 as stated: ingesting, draining, done in that order; nothing is appended
\* once draining has begun; details precede summaries, summaries follow the
\* configured order, coverage follows, and every run that reaches end of
\* input writes exactly one footer, last.
C12_PhaseOrder ==
  /\ [](SinkInOrder /\ (pc \in {"wait", "done"} => OneFooterLast))
  /\ [][PhaseStep]_vars

\* C12 amended: the same, but the footer is written exactly when the store
\* is not empty at end of input; with an empty store draining writes nothing.
C12_PhaseOrderNonEmpty ==
  /\ [](/\ SinkInOrder
        /\ pc \in {"wait", "done"} =>
             IF DOMAIN tests = {} THEN sink = <<>> ELSE OneFooterLast)
  /\ [][PhaseStep]_vars

C12_Witness ==
  /\ pc = "done"
  /\ \E i \in 1..Len(sink) : OutRank(sink[i]) = 0
  /\ \E i \in 1..Len(sink) : OutRank(sink[i]) = 1
  /\ Cardinality({i \in 1..Len(sink) : OutRank(sink[i]) = 2}) >= 2
  /\ \E i \in 1..Len(sink) : OutRank(sink[i]) = 3
  /\ OneFooterLast

\* --------------------------------------------------- properties of Append
KeysMatch == \A k \in DOMAIN tests : \A i \in 1..Len(tests[k]) : EventKey(tests[k][i]) = k

ArrivalOrder ==
  /\ DOMAIN tests = {EventKey(e) : e \in Range(GoodEvents(lines))}
  /\ \A k \in DOMAIN tests : tests[k] = SelectSeq(GoodEvents(lines), LAMBDA e : EventKey(e) = k)

\* a step that changes the store appends one event to the history of its Key
AppendStep ==
  tests' # tests =>
    \E e \in StreamEvents :
       LET k == EventKey(e)
       IN  /\ DOMAIN tests' = DOMAIN tests \cup {k}
           /\ tests'[k] = (IF k \in DOMAIN tests THEN tests[k] ELSE <<>>) \o <<e>>
           /\ \A j \in DOMAIN tests \ {k} : tests'[j] = tests[j]

Monotone ==
  /\ DOMAIN tests \subseteq DOMAIN tests'
  /\ \A k \in DOMAIN tests :
        /\ Len(tests'[k]) >= Len(tests[k])
        /\ SubSeq(tests'[k], 1, Len(tests[k])) = tests[k]

\* C13: Append puts the event at the end of the history of its Key, creating
\* it if absent, and leaves the other histories alone; the key set never
\* shrinks, histories only grow, each is in arrival order and holds only
\* events of its own Key.
C13_AppendOnly ==
  /\ [](KeysMatch /\ ArrivalOrder)
  /\ [][AppendStep /\ Monotone]_vars

C13_Witness ==
  /\ Cardinality(DOMAIN tests) >= 2
  /\ \E k \in DOMAIN tests : Len(tests[k]) >= 2

\* ------------------------------------------- properties of the exit status
\* C14: what run returns is the exit code of the wrapped process exactly when
\* that process ended by itself with a code other than zero, and zero in
\* every other case (undecodable lines, a producer killed by cancellation).
C14_ExitCodeOfProducer ==
  mpc = "returned" => exit = (IF proc = "exited" /\ code # 0 THEN code ELSE 0)

\* ------------------------------------------- properties of FindCoverage
\* the trimmed output starts with "coverage: " and ends with " of statements"
IsCoverLine(e) ==
  LET t == TrimSpace(e.Output)
  IN  /\ e.Action = ActionOutput
      /\ Len(t) >= 3
      /\ t[1] = "coverage:" /\ t[2] = " "
      /\ t[Len(t) - 1] = " " /\ t[Len(t)] = "of statements"

CoverTextOf(e) ==
  LET t == TrimSpace(e.Output)
  IN  TrimSpace(SubSeq(t, 2, Len(t) - 1))

CoverLinesAt(h) == {i \in 1..Len(h) : IsCoverLine(h[i])}

\* C15: FindCoverage is empty for the history of a per-test Key, for an empty
\* history and for a package-level history without coverage line; otherwise
\* it is the trimmed text between "coverage:" and "of statements" of the
\* first output event that is a coverage line.
C15_FindCoverage ==
  op = "FindCoverage" =>
    IF arg = <<>> THEN res = <<>>
    ELSE IF arg[1].Test # <<>> \/ arg[1].Package = <<>> THEN res = <<>>
    ELSE IF CoverLinesAt(arg) = {} THEN res = <<>>
    ELSE res = CoverTextOf(arg[Least(CoverLinesAt(arg))])

C15_Witness ==
  /\ op = "FindCoverage"
  /\ Cardinality(CoverLinesAt(arg)) >= 2
  /\ Least(CoverLinesAt(arg)) >= 2
  /\ res = <<"50.0%">>

\* -------------------------------------------- properties of PrintDetail
ElapsedText(e) == IF e.Elapsed >= 10 THEN Fmt2(e.Elapsed) ELSE ""

\* the first terminal event of the history as recorded, or its first event
Representative(h) == IF TerminalAt(h) = {} THEN h[1] ELSE h[Least(TerminalAt(h))]

\* C16: the detail line carries the status and the elapsed value of the first
\* fail, pass, skip or bench event of the history in arrival order: its tag
\* is Status(history); without such an event the tag is none and the
\* representative is the first event.
C16_TagIsStatusOfHistory ==
  (op = "PrintDetail" /\ res.out # <<>>) =>
    /\ res.out[1].status = Status(arg)
    /\ res.out[1].elapsed = ElapsedText(Representative(arg))

Count(e, h) == Cardinality({i \in 1..Len(h) : h[i] = e})

\* C20: above the compact threshold (V > 3) the events under a detail line
\* are all the events of the history, each as often as it occurs, none
\* removed.
C20_NoCompactionAboveThreshold ==
  (op = "PrintDetail" /\ res.V > 3 /\ arg # <<>>) =>
    /\ Len(res.out) = 1
    /\ Len(res.out[1].events) = Len(arg)
    /\ \A e \in Range(arg) : Count(e, res.out[1].events) = Count(e, arg)

C20_Witness ==
  /\ op = "PrintDetail"
  /\ res.V > 3
  /\ Len(arg) >= 3
  /\ Len(Compact(arg)) < Len(arg)
  /\ \E i \in 1..Len(arg) : arg[i].Action = ActionRun
  /\ \E i \in 1..Len(arg) : IsVerdictLine(arg[i], "--- PASS:")
  /\ Len(res.out[1].events) = Len(arg)

\* ------------------------------------- properties of summaries and footer
KeysOfStatus(status) == {k \in DOMAIN tests : Status(tests[k]) = status}

\* the Keys the summary of a terminal status is to list
SummaryKeys(status) ==
  {k \in KeysOfStatus(status) :
     ~(status = StatusSkip /\ flags.V <= 3 /\ k.Test = <<>> /\ IsPackageWithoutTest(tests[k]))}

\* C17: the summary of pass, fail, skip or bench lists exactly the Keys whose
\* Status is that status (for skip at V <= 3 without the packages that have
\* no test files), so no Key is listed in two summaries.
C17_SummaryPartition ==
  /\ \A i \in 1..Len(sink) :
        (sink[i].out.kind = "summary" /\ sink[i].out.status # StatusNone)
          => RowKeys(sink[i].out) = SummaryKeys(sink[i].out.status)
  /\ \A i, j \in 1..Len(sink) :
        (i < j /\ sink[i].out.kind = "summary" /\ sink[j].out.kind = "summary")
          => RowKeys(sink[i].out) \cap RowKeys(sink[j].out) = {}

TheFooter == sink[CHOOSE i \in Footers : TRUE].out

\* C18 as stated: each count of the footer is the number of Keys of the store
\* whose Status is that status.
C18_FooterCountsKeys ==
  HasFooter =>
    /\ TheFooter.pass = Cardinality(KeysOfStatus(StatusPass))
    /\ TheFooter.fail = Cardinality(KeysOfStatus(StatusFail))
    /\ TheFooter.skip = Cardinality(KeysOfStatus(StatusSkip))
    /\ TheFooter.none = Cardinality(KeysOfStatus(StatusNone))

TestsWith(action) ==
  {k \in DOMAIN tests : k.Test # <<>> /\ \E i \in 1..Len(tests[k]) : tests[k][i].Action = action}

\* C18 amended: the pass, fail and skip counts are the numbers of per-test
\* Keys with an event of that action, package-level Keys left out; the none
\* count is the number of all Keys, package-level ones included, without
\* terminal event.
C18_FooterCountsTests ==
  HasFooter =>
    /\ TheFooter.pass = Cardinality(TestsWith(ActionPass))
    /\ TheFooter.fail = Cardinality(TestsWith(ActionFail))
    /\ TheFooter.skip = Cardinality(TestsWith(ActionSkip))
    /\ TheFooter.none = Cardinality(KeysOfStatus(StatusNone))

C18_Witness ==
  /\ HasFooter
  /\ TheFooter.fail = 1
  /\ \E k \in KeysOfStatus(StatusFail) : k.Test = <<>>
  /\ \E k \in KeysOfStatus(StatusFail) : k.Test # <<>>
  /\ TheFooter.none = 1

\* ------------------------------------------ properties of the drain order
\* the keys of the detail lines written after the scan loop, in output order
DrainKeys ==
  LET d == SelectSeq(sink, LAMBDA r : IsDetail(r) /\ r.phase = "drain")
  IN  [i \in 1..Len(d) |-> d[i].key]

\* the rendered set when the scan loop ended: the Keys with an event that
\* the render-on filter selects
RenderedLive == {k \in DOMAIN tests : WantedCount(tests[k]) >= 1}

\* the Keys the draining pass selects: not rendered, no terminal event
Deferred ==
  IF StatusNone \in Range(flags.Results)
  THEN {k \in DOMAIN tests \ RenderedLive : TerminalAt(tests[k]) = {}}
  ELSE {}

Shown(k) == PrintDetail(tests[k], flags.V) # <<>>

\* C19: the detail lines of the draining phase come in the order OrderedKeys
\* gives the selected not-yet-rendered Keys, and every selected Key is marked
\* rendered.
C19_DrainInOrderedKeysOrder ==
  IF pc \in {"scan", "drain"}
  THEN DrainKeys = <<>>
  ELSE /\ \E tks \in IterationOrders(Deferred) :
             DrainKeys = SelectSeq(OrderedKeys(tks), Shown)
       /\ printed = RenderedLive \cup Deferred

FirstArrival(k) ==
  Least({i \in 1..Len(GoodEvents(lines)) : EventKey(GoodEvents(lines)[i]) = k})

C19_Witness ==
  /\ pc = "done"
  /\ Len(DrainKeys) >= 2
  /\ FirstArrival(DrainKeys[2]) < FirstArrival(DrainKeys[1])
  /\ RenderedLive # {}

\* ------------------------------------------------ properties of SortByTime
AtTime(h, t) == SelectSeq(h, LAMBDA e : e.Time = t)

\* C21: SortByTime is stable: the sorted history is in non-decreasing
\* timestamp order, events of equal timestamp keep their relative order of
\* insertion, and the result is a permutation of the input.
C21_SortByTimeStable ==
  op = "SortByTime" =>
    /\ Len(res) = Len(arg)
    /\ \A i, j \in 1..Len(res) : i < j => res[i].Time <= res[j].Time
    /\ \A t \in {arg[i].Time : i \in 1..Len(arg)} : AtTime(res, t) = AtTime(arg, t)
    /\ \A e \in Range(arg) \cup Range(res) : Count(e, res) = Count(e, arg)

C21_Witness ==
  /\ op = "SortByTime"
  /\ Len(arg) >= 3
  /\ res # arg
  /\ \E i, j \in 1..Len(arg) :
        i < j /\ arg[i].Time = arg[j].Time /\ arg[i] # arg[j]

\* --------------------------------------------------- properties of Compact
RECURSIVE IsSubseq(_, _)
IsSubseq(s, h) ==
  IF s = <<>> THEN TRUE
  ELSE IF h = <<>> THEN FALSE
  ELSE IF Head(s) = Head(h) THEN IsSubseq(Tail(s), Tail(h))
  ELSE IsSubseq(s, Tail(h))

TerminalEvents(h) == SelectSeq(h, LAMBDA e : e.Action \in Terminal)

\* C22: Compact returns a subsequence of its input, in the input's order,
\* that holds no run, cont or pause event and every pass, fail, skip and
\* bench event, so the Status of the compacted history is the Status of the
\* history.
C22_CompactKeepsTerminal ==
  op = "Compact" =>
    /\ IsSubseq(res, arg)
    /\ \A i \in 1..Len(res) : res[i].Action \notin {ActionRun, ActionCont, ActionPause}
    /\ TerminalEvents(res) = TerminalEvents(arg)
    /\ Status(res) = Status(arg)

C22_Witness ==
  /\ op = "Compact"
  /\ Len(arg) >= 3
  /\ \E i \in 1..Len(arg) : arg[i].Action \in {ActionCont, ActionPause}
  /\ Cardinality({arg[i].Action : i \in TerminalAt(arg)}) >= 2
  /\ Len(res) = 2

\* ------------------------------------------- properties of the rendered set
LiveDetails == SelectSeq(sink, LAMBDA r : IsDetail(r) /\ r.phase = "live")

\* C23: the status shown on a detail line written in the live phase is one of
\* the statuses of the render-on filter, also for a history with more than one
\* terminal action.
C23_LiveTagInFilter ==
  \A i \in 1..Len(LiveDetails) : LiveDetails[i].out.status \in Range(flags.Results)

\* C24 as stated: at every point of the run a Key is in the rendered set
\* exactly when one detail header line for it has been written.
C24_RenderedSetExact ==
  \A k \in DOMAIN tests : k \in printed <=> DetailCount(k, {"live", "drain"}) = 1

\* C24 amended: every Key with a detail header line is in the rendered set and
\* has one such line only; during the scan loop the rendered set is exactly
\* the set of Keys with a header line; a Key of the rendered set without a
\* header line is one the draining pass went over, whose history has no
\* terminal action and is emptied by compaction (V <= 3).
C24_RenderedSetCoversOutput ==
  /\ printed \subseteq DOMAIN tests
  /\ \A k \in DOMAIN tests :
        /\ DetailCount(k, {"live", "drain"}) <= 1
        /\ DetailCount(k, {"live", "drain"}) = 1 => k \in printed
        /\ pc \in {"scan", "drain"} => (k \in printed <=> DetailCount(k, {"live"}) = 1)
        /\ (k \in printed /\ DetailCount(k, {"live", "drain"}) = 0) =>
              /\ Any(flags.Results, StatusNone)
              /\ TerminalAt(tests[k]) = {}
              /\ flags.V <= 3
              /\ Compact(tests[k]) = <<>>

C24_Witness ==
  /\ \E k \in printed : DetailCount(k, {"live", "drain"}) = 0 /\ Len(tests[k]) >= 1
  /\ \E k \in printed : DetailCount(k, {"live"}) = 1

\* C25: no Key is rendered in the live phase while its history has no
\* terminal action, whatever the render-on filter: a Key of Status none has no
\* live detail line and is not in the rendered set before the draining pass,
\* and the rendered set is a subset of the keys of the store.
C25_NoLiveRenderWithoutTerminal ==
  /\ printed \subseteq DOMAIN tests
  /\ \A i \in 1..Len(LiveDetails) : TerminalAt(tests[LiveDetails[i].key]) # {}
  /\ \A k \in DOMAIN tests :
        TerminalAt(tests[k]) = {} =>
           /\ DetailCount(k, {"live"}) = 0
           /\ pc \in {"scan", "drain"} => k \notin printed

C25_Witness ==
  /\ Any(flags.Results, StatusNone)
  /\ \E k \in DOMAIN tests :
        /\ TerminalAt(tests[k]) = {}
        /\ Len(tests[k]) >= 2
        /\ DetailCount(k, {"live"}) = 0
        /\ DetailCount(k, {"drain"}) = 1
  /\ \E k \in printed : DetailCount(k, {"live"}) = 1

\* ---------------------------------------------- properties of the store
\* C26: rendering and querying leave the store as it was: after PrintDetail
\* of a stored history, after each filter operation and after PrintSummary and
\* PrintCoverage, the store has the same keys and every history has the same
\* events in the same order.
C26_StoreNotModified ==
  op # "init" =>
    /\ DOMAIN res.mem.maps[1] = DOMAIN arg
    /\ Deref(res.mem, 1) = arg

C26_Witness ==
  /\ op = "PrintDetail"
  /\ res.V > 3
  /\ LET stored == res.mem.arrays[res.mem.maps[1][res.key]]
         sorted == res.mem.arrays[Len(res.mem.arrays)]
     IN  /\ Len(res.mem.arrays) > Cardinality(DOMAIN arg)
         /\ Len(sorted) = Len(stored)
         /\ sorted # stored

\* ---------------------------------------------- properties of Key.String
\* C27: the string form of a Key identifies it: two distinct Keys among those
\* being ordered never have the same String() value, so the comparison of
\* OrderedKeys never ties on distinct Keys.
C27_KeyStringInjective ==
  op = "OrderedKeys" =>
    \A x, y \in Range(arg) :
       x # y => /\ KeyString(x) # KeyString(y)
                /\ (KeyLess(x, y) \/ KeyLess(y, x))

\* ------------------------------------- properties of the earlier controller
\* C28: in the run of tgoo.go, where a per-test fail event renders its Key at
\* once and a package-level fail event renders the not yet printed Keys of the
\* package that have no pass event, no Key has more than one detail line over
\* the scan loop and the rest pass together.
C28_TgooDetailAtMostOnce ==
  \A k \in DOMAIN tests : DetailCount(k, {"live", "drain"}) <= 1

\* ---------------------------------------------- properties of Statuses.Set
RECURSIVE Join(_)
Join(ss) ==
  IF ss = <<>> THEN <<>>
  ELSE IF Len(ss) = 1 THEN <<ss[1]>>
  ELSE <<ss[1], ",">> \o Join(Tail(ss))

\* the value in lower case is a comma-separated list of statuses
ListsStatuses(v, ss) == ss # <<>> /\ Join(ss) = v

LowerCased(v) ==
  [i \in 1..Len(v) |-> IF v[i] \in {"fail", "FAIL"} THEN "fail"
                       ELSE IF v[i] = "Pass" THEN "pass"
                       ELSE IF v[i] \in {"all", "ALL"} THEN "all"
                       ELSE v[i]]

\* C29: Set with a value holding a name that is no status returns an error
\* and leaves the receiver as it was; "-" sets the empty list, "all" sets a
\* new copy of AllStatuses, and any other value sets the statuses it lists,
\* separated by commas, in the order given, whatever the case of the letters.
C29_StatusesSet ==
  op = "Set" =>
    LET v == LowerCased(arg.value)
        lists == {ss \in SeqsUpTo(Range(AllStatuses), MaxValue) : ListsStatuses(v, ss)}
        set == res.arrays[res.ss]
    IN  /\ res.arrays[1] = AllStatuses
        /\ res.arrays[2] = arg.ss
        /\ v = <<"-">> => (~res.err /\ set = <<>>)
        /\ v = <<"all">> => (~res.err /\ set = AllStatuses /\ res.ss # 1)
        /\ v \notin {<<"-">>, <<"all">>} =>
              /\ res.err <=> lists = {}
              /\ ~res.err => set \in lists
              /\ res.err => (res.ss = 2 /\ set = arg.ss)

C29_Witness ==
  /\ op = "Set"
  /\ res.err
  /\ arg.ss # <<>>
  /\ Len(arg.value) = 3
  /\ arg.value[1] \in {"FAIL", "Pass"}
  /\ arg.value[2] = ","
  /\ res.arrays[res.ss] = arg.ss

====
